---- MODULE Spec2Model ----
(***************************************************************************)
(* Row decoding layer of sea-orm (src/executor/query.rs).                  *)
(*                                                                         *)
(* A QueryResult holds one QueryResultRow, a tagged union over the native  *)
(* rows of the sqlx back ends and the mock row.  TryGetable::try_get       *)
(* extracts the column named prefix ++ column as a concrete type and       *)
(* returns Ok(value), Err(TryGetError::Null), Err(TryGetError::DbErr(e)),  *)
(* or panics when the back end does not support the type.                  *)
(*                                                                         *)
(* The module is a state machine over one row carrier: the carrier is      *)
(* handed over by the transport layer (Init), one operation is applied to  *)
(* it, and the operation's outcome is kept in `result`.                    *)
(***************************************************************************)
EXTENDS Naturals, Integers, Sequences, FiniteSets, TLC

\* Number of distinct stored values per SQL type.
MaxVal == 1

\* The f64 that rust_decimal cannot represent (NaN / infinite / out of range).
NaN == -1

VARIABLES
    row,        \* the QueryResultRow held by the QueryResult (read-only)
    pc,         \* "ready" | "returned" | "aborted" (panicked)
    op,         \* the operation that was applied and its arguments
    result,     \* what the operation returned, or the panic it raised
    queried     \* the (key, native type) requests made to the carrier

vars == <<row, pc, op, result, queried>>

---------------------------------------------------------------------------
(* Result values *)

Ok(v)     == [kind |-> "Ok", val |-> v]
Err(e)    == [kind |-> "Err", err |-> e]
Panic(m)  == [kind |-> "Panic", msg |-> m]

Some(v)   == [opt |-> "Some", v |-> v]
None      == [opt |-> "None"]

DbErr_Query(m) == [variant |-> "Query", msg |-> m]

TryGetError_DbErr(e) == [e |-> "DbErr", err |-> e]
TryGetError_Null     == [e |-> "Null"]

\* What an arm of a try_get returns: its result and the requests it made
\* to the native row.
Ret(r, q) == [res |-> r, q |-> q]

---------------------------------------------------------------------------
(* The row carrier *)

Variants == {"SqlxMySql", "SqlxPostgres", "SqlxSqlite", "Mock"}

\* try_getable_all!, try_getable_unsigned!, try_getable_mysql!,
\* try_getable_postgres! registrations and the hand-written Decimal impl.
AllTypes ==
    {"bool", "i8", "i16", "i32", "i64", "u32", "f32", "f64", "String",
     "serde_json::Value", "chrono::NaiveDateTime", "uuid::Uuid"}
UnsignedTypes == {"u8", "u16"}
MysqlTypes    == {"u64"}
PostgresTypes == {"chrono::DateTime<chrono::FixedOffset>"}
DecimalTypes  == {"Decimal"}

Types == AllTypes \cup UnsignedTypes \cup MysqlTypes \cup PostgresTypes
            \cup DecimalTypes

\* Column names a fetched row may carry, and the prefixes / columns asked for.
Columns  == {"id", "a_id"}
Prefixes == {"", "a_"}

Numbers(ty) == IF ty = "f64" THEN (1..MaxVal) \cup {NaN} ELSE 1..MaxVal

Value(ty, n) == [ty |-> ty, n |-> n]

Absent   == [c |-> "absent"]
NullCell == [c |-> "null"]
Val(v)   == [c |-> "val", v |-> v]

Cells == {Absent, NullCell}
            \cup { Val(Value(ty, n)) : <<ty, n>> \in
                     { tn \in Types \X ((1..MaxVal) \cup {NaN}) :
                         tn[2] \in Numbers(tn[1]) } }

Carriers == [variant : Variants, cells : [Columns -> Cells]]

Cell(r, key) == IF key \in DOMAIN r.cells THEN r.cells[key] ELSE Absent

---------------------------------------------------------------------------
(* Collaborators: the native rows, the mock row, the error mapping *)

\* sqlx::Row::try_get::<Option<nty>, _>(key) on a native row.
sqlx_Row_try_get(r, nty, key) ==
    LET cell == Cell(r, key) IN
    CASE cell.c = "absent" -> Err("no column found for name: " \o key)
      [] cell.c = "null"   -> Ok(None)
      [] OTHER ->
            IF cell.v.ty = nty
            THEN Ok(Some(cell.v))
            ELSE Err("mismatched types for column: " \o key)

\* crate::MockRow::try_get::<ty>(key).
MockRow_try_get(r, ty, key) ==
    LET cell == Cell(r, key) IN
    CASE cell.c = "absent" -> Err(DbErr_Query("missing key: " \o key))
      [] cell.c = "null"   -> Err(DbErr_Query("wrong type: " \o key))
      [] OTHER ->
            IF cell.v.ty = ty
            THEN Ok(cell.v)
            ELSE Err(DbErr_Query("wrong type: " \o key))

\* crate::sqlx_error_to_query_err
sqlx_error_to_query_err(d) == DbErr_Query(d)

\* rust_decimal::Decimal::from_f64
Decimal_from_f64(v) ==
    IF v.n = NaN THEN None ELSE Some(Value("Decimal", v.n))

---------------------------------------------------------------------------
(* impl From<TryGetError> for DbErr *)

From_TryGetError_unexpected(e) ==
    IF e.e = "DbErr"
    THEN e.err
    ELSE DbErr_Query("value was unexpectedly null")

From_TryGetError(e) ==
    IF e.e = "DbErr"
    THEN e.err
    ELSE DbErr_Query("error occurred while decoding: Null")

---------------------------------------------------------------------------
(* TryGetable *)

\* format!("{}{}", pre, col)
format_column_sep(pre, col) == pre \o "." \o col

format_column(pre, col) == pre \o col

\* .map_err(crate::sqlx_error_to_query_err)
map_err_swallow(r) ==
    IF r.kind = "Err" THEN Err(TryGetError_Null) ELSE r

map_err(r) ==
    IF r.kind = "Err"
    THEN Err(TryGetError_DbErr(sqlx_error_to_query_err(r.err)))
    ELSE r

\* .and_then(|opt| opt.ok_or_else(TryGetError::Null))
and_then_ok_or(r) ==
    IF r.kind = "Ok"
    THEN IF r.val.opt = "Some" THEN Ok(r.val.v) ELSE Err(TryGetError_Null)
    ELSE r

\* The arm shared by every supported native back end of the four macros.
sqlx_arm(r, ty, column) ==
    Ret(and_then_ok_or(map_err(sqlx_Row_try_get(r, ty, column))),
        {[key |-> column, as |-> ty]})

\* The Mock arm: any extraction failure becomes Null.
mock_arm_dberr(r, ty, column) ==
    LET got == MockRow_try_get(r, ty, column) IN
    Ret(IF got.kind = "Err" THEN Err(TryGetError_DbErr(got.err)) ELSE got,
        {[key |-> column, as |-> ty]})

mock_arm(r, ty, column) ==
    LET got == MockRow_try_get(r, ty, column) IN
    Ret(IF got.kind = "Err" THEN Err(TryGetError_Null) ELSE got,
        {[key |-> column, as |-> ty]})

\* panic!("{} unsupported by sqlx-...", stringify!($type))
unsupported_as_null(ty, backend) == Ret(Err(TryGetError_Null), {})

unsupported(ty, backend) ==
    Ret(Panic(ty \o " unsupported by " \o backend), {})

try_getable_all(r, ty, pre, col) ==
    LET column == format_column(pre, col) IN
    CASE r.variant = "SqlxMySql"    -> sqlx_arm(r, ty, column)
      [] r.variant = "SqlxPostgres" -> sqlx_arm(r, ty, column)
      [] r.variant = "SqlxSqlite"   -> sqlx_arm(r, ty, column)
      [] r.variant = "Mock"         -> mock_arm(r, ty, column)

try_getable_unsigned(r, ty, pre, col) ==
    LET column == format_column(pre, col) IN
    CASE r.variant = "SqlxMySql"    -> sqlx_arm(r, ty, column)
      [] r.variant = "SqlxPostgres" -> unsupported(ty, "sqlx-postgres")
      [] r.variant = "SqlxSqlite"   -> sqlx_arm(r, ty, column)
      [] r.variant = "Mock"         -> mock_arm(r, ty, column)

try_getable_mysql(r, ty, pre, col) ==
    LET column == format_column(pre, col) IN
    CASE r.variant = "SqlxMySql"    -> sqlx_arm(r, ty, column)
      [] r.variant = "SqlxPostgres" -> unsupported(ty, "sqlx-postgres")
      [] r.variant = "SqlxSqlite"   -> unsupported(ty, "sqlx-sqlite")
      [] r.variant = "Mock"         -> mock_arm(r, ty, column)

try_getable_postgres(r, ty, pre, col) ==
    LET column == format_column(pre, col) IN
    CASE r.variant = "SqlxMySql"    -> unsupported(ty, "sqlx-mysql")
      [] r.variant = "SqlxPostgres" -> sqlx_arm(r, ty, column)
      [] r.variant = "SqlxSqlite"   -> unsupported(ty, "sqlx-sqlite")
      [] r.variant = "Mock"         -> mock_arm(r, ty, column)

\* Decimal, MySQL and Postgres arms: the Option read from the driver is
\* returned as it is; there is no and_then mapping None to Null.
Decimal_native_arm(r, column) ==
    Ret(map_err(sqlx_Row_try_get(r, "Decimal", column)),
        {[key |-> column, as |-> "Decimal"]})

\* Decimal, SQLite arm: read an Option<f64> and convert.
Decimal_sqlite_arm_null(r, column) ==
    LET val == map_err(sqlx_Row_try_get(r, "f64", column))
        q   == {[key |-> column, as |-> "f64"]}
    IN  IF val.kind = "Err" THEN Ret(val, q)
        ELSE IF val.val.opt = "Some"
             THEN LET d == Decimal_from_f64(val.val.v) IN
                  Ret(IF d.opt = "Some" THEN Ok(d.v)
                      ELSE Err(TryGetError_Null), q)
             ELSE Ret(Err(TryGetError_Null), q)

Decimal_sqlite_arm(r, column) ==
    LET val == map_err(sqlx_Row_try_get(r, "f64", column))
        q   == {[key |-> column, as |-> "f64"]}
    IN  IF val.kind = "Err" THEN Ret(val, q)
        ELSE IF val.val.opt = "Some"
             THEN LET d == Decimal_from_f64(val.val.v) IN
                  Ret(IF d.opt = "Some" THEN Ok(d.v)
                      ELSE Err(TryGetError_DbErr(DbErr_Query(
                               "Failed to convert f64 into Decimal"))), q)
             ELSE Ret(Err(TryGetError_Null), q)

Decimal_try_get(r, pre, col) ==
    LET column == format_column(pre, col) IN
    CASE r.variant = "SqlxMySql"    -> Decimal_native_arm(r, column)
      [] r.variant = "SqlxPostgres" -> Decimal_native_arm(r, column)
      [] r.variant = "SqlxSqlite"   -> Decimal_sqlite_arm(r, column)
      [] r.variant = "Mock"         -> mock_arm(r, "Decimal", column)

\* <T as TryGetable>::try_get, by the macro that registers T.
T_try_get(r, ty, pre, col) ==
    CASE ty \in AllTypes      -> try_getable_all(r, ty, pre, col)
      [] ty \in UnsignedTypes -> try_getable_unsigned(r, ty, pre, col)
      [] ty \in MysqlTypes    -> try_getable_mysql(r, ty, pre, col)
      [] ty \in PostgresTypes -> try_getable_postgres(r, ty, pre, col)
      [] ty \in DecimalTypes  -> Decimal_try_get(r, pre, col)

\* impl<T: TryGetable> TryGetable for Option<T>: the match on T::try_get.
Option_match_propagate(t) ==
    CASE t.kind = "Ok" -> Ok(Some(t.val))
      [] OTHER -> t

Option_match(t) ==
    CASE t.kind = "Ok" -> Ok(Some(t.val))
      [] t.kind = "Err" /\ t.err = TryGetError_Null -> Ok(None)
      [] OTHER -> t

Option_try_get(r, ty, pre, col) ==
    LET t == T_try_get(r, ty, pre, col) IN Ret(Option_match(t.res), t.q)

\* QueryResult::try_get::<T>:  Ok(T::try_get(self, pre, col)?)
question_mark(t) ==
    CASE t.kind = "Ok"  -> Ok(t.val)
      [] t.kind = "Err" -> Err(From_TryGetError(t.err))
      [] OTHER -> t

QueryResult_try_get(r, ty, optional, pre, col) ==
    LET t == IF optional THEN Option_try_get(r, ty, pre, col)
                         ELSE T_try_get(r, ty, pre, col)
    IN  Ret(question_mark(t.res), t.q)

---------------------------------------------------------------------------
(* impl fmt::Debug for QueryResultRow, #[derive(Debug)] for QueryResult *)

native_Debug(r) == [native |-> r.variant, cells |-> r.cells]

QueryResultRow_fmt_silent(r) ==
    CASE r.variant = "SqlxMySql"    -> Ok(native_Debug(r))
      [] r.variant = "SqlxPostgres" -> Ok([native |-> r.variant])
      [] r.variant = "SqlxSqlite"   -> Ok([native |-> r.variant])
      [] r.variant = "Mock"         -> Ok(native_Debug(r))

QueryResultRow_fmt(r) ==
    CASE r.variant = "SqlxMySql"    -> Ok(native_Debug(r))
      [] r.variant = "SqlxPostgres" ->
            Panic("QueryResultRow::SqlxPostgres cannot be inspected")
      [] r.variant = "SqlxSqlite"   ->
            Panic("QueryResultRow::SqlxSqlite cannot be inspected")
      [] r.variant = "Mock"         -> Ok(native_Debug(r))

QueryResult_fmt(r) ==
    LET f == QueryResultRow_fmt(r) IN
    IF f.kind = "Ok" THEN Ok([struct |-> "QueryResult", row |-> f.val])
    ELSE f

---------------------------------------------------------------------------
(* The state machine *)

NoErr == [e |-> "-"]

Op(name, ty, optional, pre, col, e) ==
    [name |-> name, ty |-> ty, optional |-> optional,
     pre |-> pre, col |-> col, e |-> e]

NoOp == Op("-", "-", FALSE, "", "", NoErr)

\* The TryGetError values that can be handed to From.
TryGetErrors ==
    {TryGetError_Null,
     TryGetError_DbErr(DbErr_Query("Failed to convert f64 into Decimal"))}
    \cup { TryGetError_DbErr(sqlx_error_to_query_err(
               "no column found for name: " \o k)) : k \in Columns }

Init ==
    /\ row \in Carriers
    /\ pc = "ready"
    /\ op = NoOp
    /\ result = Ok(None)
    /\ queried = {}

Finish(o, ret) ==
    /\ op' = o
    /\ result' = ret.res
    /\ queried' = ret.q
    /\ pc' = IF ret.res.kind = "Panic" THEN "aborted" ELSE "returned"
    /\ UNCHANGED row

TryGet ==
    /\ pc = "ready"
    /\ \E ty \in Types, pre \in Prefixes, col \in Columns :
          Finish(Op("T::try_get", ty, FALSE, pre, col, NoErr),
                 T_try_get(row, ty, pre, col))

OptionTryGet ==
    /\ pc = "ready"
    /\ \E ty \in Types, pre \in Prefixes, col \in Columns :
          Finish(Op("Option<T>::try_get", ty, TRUE, pre, col, NoErr),
                 Option_try_get(row, ty, pre, col))

QueryResultTryGet ==
    /\ pc = "ready"
    /\ \E ty \in Types, optional \in BOOLEAN,
          pre \in Prefixes, col \in Columns :
          Finish(Op("QueryResult::try_get", ty, optional, pre, col, NoErr),
                 QueryResult_try_get(row, ty, optional, pre, col))

FromTryGetError ==
    /\ pc = "ready"
    /\ \E e \in TryGetErrors :
          Finish(Op("From<TryGetError>", "-", FALSE, "", "", e),
                 Ret(Ok(From_TryGetError(e)), {}))

DebugRow ==
    /\ pc = "ready"
    /\ Finish(Op("QueryResultRow::fmt", "-", FALSE, "", "", NoErr),
              Ret(QueryResultRow_fmt(row), {}))

DebugQueryResult ==
    /\ pc = "ready"
    /\ Finish(Op("QueryResult::fmt", "-", FALSE, "", "", NoErr),
              Ret(QueryResult_fmt(row), {}))

Next ==
    \/ TryGet
    \/ OptionTryGet
    \/ QueryResultTryGet
    \/ FromTryGetError
    \/ DebugRow
    \/ DebugQueryResult

Spec == Init /\ [][Next]_vars

---------------------------------------------------------------------------
(* Properties *)

IsTryGet      == op.name = "T::try_get"
IsOptionGet   == op.name = "Option<T>::try_get"
IsQueryGet    == op.name = "QueryResult::try_get"
IsFrom        == op.name = "From<TryGetError>"
IsGet         == IsTryGet \/ IsOptionGet \/ IsQueryGet

RealVariants  == {"SqlxMySql", "SqlxPostgres", "SqlxSqlite"}

\* The key the operation resolves, and the cell of the row under that key.
OpKey  == op.pre \o op.col
OpCell == Cell(row, OpKey)

\* The (type, variant) pairs the documentation lists as unsupported.
UnsupportedPairs ==
    {<<"u8", "SqlxPostgres">>, <<"u16", "SqlxPostgres">>,
     <<"u64", "SqlxPostgres">>, <<"u64", "SqlxSqlite">>,
     <<"chrono::DateTime<chrono::FixedOffset>", "SqlxMySql">>,
     <<"chrono::DateTime<chrono::FixedOffset>", "SqlxSqlite">>}

OpSupported == <<op.ty, row.variant>> \notin UnsupportedPairs

BackendName ==
    CASE row.variant = "SqlxMySql"    -> "sqlx-mysql"
      [] row.variant = "SqlxPostgres" -> "sqlx-postgres"
      [] row.variant = "SqlxSqlite"   -> "sqlx-sqlite"
      [] OTHER                        -> "mock"

\* The native type the driver is asked for.
OpNativeType ==
    IF op.ty = "Decimal" /\ row.variant = "SqlxSqlite" THEN "f64" ELSE op.ty

\* What the native driver answers for the resolved column.
OpDriver == sqlx_Row_try_get(row, OpNativeType, OpKey)

\* C1: Option<T>::try_get is determined by T::try_get on the same
\* arguments: Ok(v) gives Ok(Some(v)), Err(Null) gives Ok(None), Err(DbErr(e))
\* gives the same Err(DbErr(e)); Option<T>::try_get never returns Err(Null).
C1_OptionFollowsInner ==
    IsOptionGet =>
        LET t == T_try_get(row, op.ty, op.pre, op.col).res IN
        /\ t.kind = "Ok" => result = Ok(Some(t.val))
        /\ t = Err(TryGetError_Null) => result = Ok(None)
        /\ (t.kind = "Err" /\ t.err.e = "DbErr") => result = t
        /\ result # Err(TryGetError_Null)

C1_Witness ==
    /\ IsOptionGet
    /\ row.variant = "SqlxPostgres"
    /\ OpCell = NullCell
    /\ op.ty = "i32"
    /\ result = Ok(None)

\* C2: on a real back end that supports T, a column that exists and holds
\* SQL NULL makes T::try_get return Err(Null) and Option<T>::try_get return
\* Ok(None), for every registered type including Decimal.
C2_NullColumnIsNull ==
    (row.variant \in RealVariants /\ OpSupported /\ OpCell = NullCell) =>
        /\ IsTryGet => result = Err(TryGetError_Null)
        /\ IsOptionGet => result = Ok(None)

\* C3: try_get panics exactly for the unsupported (type, variant) pairs,
\* never on the mock variant, also through Option<T> and
\* QueryResult::try_get, and the panic message names type and back end.
C3_AbortExactlyUnsupported ==
    IsGet =>
        /\ result.kind = "Panic" <=> ~OpSupported
        /\ pc = "aborted" <=> ~OpSupported
        /\ row.variant = "Mock" => result.kind # "Panic"
        /\ result.kind = "Panic" =>
              result.msg = op.ty \o " unsupported by " \o BackendName

C3_Witness ==
    /\ IsOptionGet
    /\ op.ty = "u64"
    /\ row.variant = "SqlxSqlite"
    /\ result = Panic("u64 unsupported by sqlx-sqlite")

\* C4 (as stated): flattening Null yields DbErr::Query with the message
\* "value was unexpectedly null".
C4_NullMessageAsStated ==
    /\ (IsFrom /\ op.e = TryGetError_Null) =>
          result = Ok(DbErr_Query("value was unexpectedly null"))
    /\ (IsQueryGet /\ ~op.optional
          /\ T_try_get(row, op.ty, op.pre, op.col).res
                = Err(TryGetError_Null)) =>
          result = Err(DbErr_Query("value was unexpectedly null"))

\* C4 (amended): flattening Null yields DbErr::Query with the message
\* "error occurred while decoding: Null".
C4_NullBecomesQueryError ==
    /\ (IsFrom /\ op.e = TryGetError_Null) =>
          result = Ok(DbErr_Query("error occurred while decoding: Null"))
    /\ (IsQueryGet /\ ~op.optional
          /\ T_try_get(row, op.ty, op.pre, op.col).res
                = Err(TryGetError_Null)) =>
          result = Err(DbErr_Query("error occurred while decoding: Null"))

C4_Witness ==
    /\ IsQueryGet
    /\ ~op.optional
    /\ row.variant = "SqlxMySql"
    /\ OpCell = NullCell
    /\ result = Err(DbErr_Query("error occurred while decoding: Null"))

\* C5: a driver error d of a real back end reaches the caller unchanged:
\* T::try_get and Option<T>::try_get return Err(DbErr(e)) with e the
\* transport layer's mapping of d, and QueryResult::try_get and
\* From<TryGetError> return exactly e.
C5_DriverErrorUnchanged ==
    /\ (IsGet /\ row.variant \in RealVariants /\ OpSupported
          /\ OpDriver.kind = "Err") =>
          LET e == sqlx_error_to_query_err(OpDriver.err) IN
          /\ (IsTryGet \/ IsOptionGet) => result = Err(TryGetError_DbErr(e))
          /\ IsQueryGet => result = Err(e)
    /\ (IsFrom /\ op.e.e = "DbErr") => result = Ok(op.e.err)

C5_Witness ==
    /\ IsQueryGet
    /\ op.optional
    /\ row.variant = "SqlxSqlite"
    /\ op.ty = "Decimal"
    /\ OpCell.c = "val"
    /\ OpDriver.kind = "Err"
    /\ result = Err(DbErr_Query("mismatched types for column: a_id"))

\* C6: the key looked up is prefix ++ column without a separator: two
\* (prefix, column) pairs with the same concatenation give the same result,
\* and the carrier is asked for that one key only.
C6_KeyIsConcatenation ==
    IsGet =>
        /\ \A p2 \in Prefixes, c2 \in Columns :
              p2 \o c2 = op.pre \o op.col =>
                 result =
                    CASE IsTryGet -> T_try_get(row, op.ty, p2, c2).res
                      [] IsOptionGet -> Option_try_get(row, op.ty, p2, c2).res
                      [] OTHER -> QueryResult_try_get(
                                     row, op.ty, op.optional, p2, c2).res
        /\ \A q \in queried : q.key = op.pre \o op.col
        /\ Cardinality(queried) <= 1
        /\ OpSupported => Cardinality(queried) = 1

C6_Witness ==
    /\ IsTryGet
    /\ op.pre = "a_"
    /\ op.col = "id"
    /\ row.cells["a_id"].c = "val"
    /\ row.cells["id"] # row.cells["a_id"]
    /\ result = Ok(row.cells["a_id"].v)
    /\ queried = {[key |-> "a_id", as |-> op.ty]}

\* C7: on the mock variant a missing key and a value of the wrong type both
\* make T::try_get return Err(Null); the mock path never returns Err(DbErr)
\* and never panics; Option<T>::try_get returns Ok(None) for both.
C7_MockFailureIsNull ==
    (row.variant = "Mock" /\ (IsTryGet \/ IsOptionGet)) =>
        LET failed == \/ OpCell.c = "absent"
                      \/ OpCell.c = "val" /\ OpCell.v.ty # op.ty
        IN
        /\ result.kind # "Panic"
        /\ ~(result.kind = "Err" /\ result.err.e = "DbErr")
        /\ (failed /\ IsTryGet) => result = Err(TryGetError_Null)
        /\ (failed /\ IsOptionGet) => result = Ok(None)

C7_Witness ==
    /\ IsTryGet
    /\ row.variant = "Mock"
    /\ op.ty = "Decimal"
    /\ OpCell.c = "val"
    /\ OpCell.v.ty # op.ty
    /\ result = Err(TryGetError_Null)

\* C8: Decimal::try_get on SQLite reads an optional f64 and has four
\* outcomes: driver error -> Err(DbErr(mapped)); NULL -> Err(Null);
\* convertible float -> Ok(decimal); unrepresentable float -> Err(DbErr),
\* never Err(Null) or Ok.  On MySQL and Postgres the column is read as a
\* Decimal, without the float conversion.
C8_DecimalPaths ==
    (IsTryGet /\ op.ty = "Decimal") =>
        /\ row.variant = "SqlxSqlite" =>
              LET d == sqlx_Row_try_get(row, "f64", OpKey) IN
              /\ queried = {[key |-> OpKey, as |-> "f64"]}
              /\ d.kind = "Err" =>
                    result = Err(TryGetError_DbErr(
                                    sqlx_error_to_query_err(d.err)))
              /\ d = Ok(None) => result = Err(TryGetError_Null)
              /\ (d.kind = "Ok" /\ d.val.opt = "Some" /\ d.val.v.n # NaN) =>
                    result = Ok(Value("Decimal", d.val.v.n))
              /\ (d.kind = "Ok" /\ d.val.opt = "Some" /\ d.val.v.n = NaN) =>
                    /\ result.kind = "Err"
                    /\ result.err.e = "DbErr"
        /\ row.variant \in {"SqlxMySql", "SqlxPostgres"} =>
              queried = {[key |-> OpKey, as |-> "Decimal"]}

C8_Witness ==
    /\ IsTryGet
    /\ op.ty = "Decimal"
    /\ row.variant = "SqlxSqlite"
    /\ OpCell = Val(Value("f64", NaN))
    /\ result = Err(TryGetError_DbErr(
                       DbErr_Query("Failed to convert f64 into Decimal")))

\* C9: on every variant that supports T, a present, non-null column holding
\* value v of type T makes T::try_get and QueryResult::try_get::<T> return
\* Ok(v), the value passed through unmodified.  (A SQLite column holds a
\* Decimal as a convertible f64.)
C9_ValuePassedThrough ==
    ((IsTryGet \/ (IsQueryGet /\ ~op.optional)) /\ OpSupported
        /\ OpCell.c = "val") =>
        IF op.ty = "Decimal" /\ row.variant = "SqlxSqlite"
        THEN (OpCell.v.ty = "f64" /\ OpCell.v.n # NaN) =>
                result = Ok(Value("Decimal", OpCell.v.n))
        ELSE OpCell.v.ty = op.ty => result = Ok(OpCell.v)

\* C10: Debug of the row carrier, directly or through QueryResult, writes
\* the native row's debug form for MySQL and the mock, and panics for
\* Postgres and SQLite; no variant writes empty or placeholder output.
C10_DebugWorksOrPanics ==
    /\ op.name = "QueryResultRow::fmt" =>
          IF row.variant \in {"SqlxMySql", "Mock"}
          THEN result = Ok(native_Debug(row))
          ELSE result.kind = "Panic" /\ pc = "aborted"
    /\ op.name = "QueryResult::fmt" =>
          IF row.variant \in {"SqlxMySql", "Mock"}
          THEN result.kind = "Ok" /\ result.val.row = native_Debug(row)
          ELSE result.kind = "Panic" /\ pc = "aborted"

C10_Witness ==
    /\ op.name = "QueryResult::fmt"
    /\ row.variant = "SqlxPostgres"
    /\ result = Panic("QueryResultRow::SqlxPostgres cannot be inspected")

====
